---- MODULE Spec2Model ----
(***************************************************************************)
(* commit-enhancer: the CLI entry point (index.js), the workflow           *)
(* orchestrator (runCommitWorkflow), the Git gateway (services/git.js),    *)
(* the suggestion gateway (getCommitSuggestion) and the prompts (ui.js).   *)
(*                                                                         *)
(* Strings are sequences of one-character strings, so that trimming,       *)
(* prefix tests, substring search and concatenation are computed as the    *)
(* JavaScript code computes them.                                          *)
(***************************************************************************)
EXTENDS Integers, Sequences, FiniteSets, TLC

(* ---------------------------------------------------------------------- *)
(* Bounds                                                                  *)
(* ---------------------------------------------------------------------- *)

\* Number of rewrite decisions a run may take (the loop itself has no cap).
MaxRewrites == 2

\* Number of subprocess failures per run that the state of the repository
\* does not explain (a crash of the tool, a lock, a damaged index).
MaxFaults == 1

\* Longest argument list given to the parser when it is examined alone.
MaxArgs == 3

\* Longest response text given to the cleanup when it is examined alone.
MaxTextLen == 3

(* ---------------------------------------------------------------------- *)
(* Strings                                                                 *)
(* ---------------------------------------------------------------------- *)

\* JavaScript null / undefined: a value that is no string of characters.
Null == <<"<null>">>

\* Variant of Truthy: only null is falsy, the empty string is not.
Truthy_NullOnly(s) == s # Null

\* JavaScript truthiness of a string-or-null value.
Truthy(s) == s # Null /\ s # <<>>

IsWhitespace(c) == c \in {" ", "\n", "\t"}

RECURSIVE TrimStart(_)
TrimStart(s) ==
    IF s # <<>> /\ IsWhitespace(Head(s)) THEN TrimStart(Tail(s)) ELSE s

RECURSIVE TrimEnd(_)
TrimEnd(s) ==
    IF s # <<>> /\ IsWhitespace(s[Len(s)])
    THEN TrimEnd(SubSeq(s, 1, Len(s) - 1)) ELSE s

\* String.prototype.trim
Trim(s) == TrimEnd(TrimStart(s))

\* The grave accent U+0060 (the lexer accepts no grave accent inside a string
\* literal, so the character is written as this one token).
Tick == "<tick>"

RECURSIVE StripLeadingTicks(_)
StripLeadingTicks(s) ==
    IF s # <<>> /\ Head(s) = Tick THEN StripLeadingTicks(Tail(s)) ELSE s

RECURSIVE StripTrailingTicks(_)
StripTrailingTicks(s) ==
    IF s # <<>> /\ s[Len(s)] = Tick
    THEN StripTrailingTicks(SubSeq(s, 1, Len(s) - 1)) ELSE s

\* s.replace(/^T+|T+$/g, "") with T the grave accent
StripTicks(s) == StripTrailingTicks(StripLeadingTicks(s))

\* String.prototype.startsWith
StartsWith(s, p) == Len(p) <= Len(s) /\ SubSeq(s, 1, Len(p)) = p

\* String.prototype.endsWith
EndsWith(s, p) ==
    Len(p) <= Len(s) /\ SubSeq(s, Len(s) - Len(p) + 1, Len(s)) = p

\* String.prototype.includes
Includes(s, p) ==
    \E i \in 1..(Len(s) - Len(p) + 1) :
        (p = <<>> \/ s[i] = p[1]) /\ SubSeq(s, i, i + Len(p) - 1) = p

\* Array.prototype.join(" ")
RECURSIVE JoinSpace(_)
JoinSpace(xs) ==
    IF xs = <<>> THEN <<>>
    ELSE IF Len(xs) = 1 THEN Head(xs)
    ELSE Head(xs) \o <<" ">> \o JoinSpace(Tail(xs))

Last(xs) == xs[Len(xs)]

(* ---------------------------------------------------------------------- *)
(* Literals of the source                                                  *)
(* ---------------------------------------------------------------------- *)

Dash == <<"-">>
FlagDashY == <<"-","y">>
FlagSlashY == <<"/","y">>
ConflictMarker == <<"U","U">>
RewritePrefix == <<"R","e","w","r","i","t","e"," ","t","h","e"," ","f","o","l","l","o","w","i","n","g"," ","c","o","m","m","i","t"," ","m","e","s","s","a","g","e">>
ToBe == <<" ","t","o"," ","b","e"," ">>
ColonQuote == <<":"," ","\"">>
Quote == <<"\"">>


PromptHead ==
    <<"Y","o","u"," ","a","r","e"," ","a","n"," ","e","x","p","e","r","t",
      " ","G","i","t"," ","c","o","m","m","i","t"," ","m","e","s","s","a",
      "g","e"," ","w","r","i","t","e","r","."," ","G","e","n","e","r","a",
      "t","e"," ","a"," ","p","r","o","f","e","s","s","i","o","n","a","l",
      " ","c","o","m","m","i","t"," ","m","e","s","s","a","g","e"," ","i",
      "n"," ","t","h","e"," ","C","o","n","v","e","n","t","i","o","n","a",
      "l"," ","C","o","m","m","i","t","s"," ","s","t","a","n","d","a","r",
      "d"," ","b","a","s","e","d"," ","o","n"," ","t","h","e"," ","u","s",
      "e","r","'","s"," ","i","n","t","e","n","t"," ","a","n","d"," ","t",
      "h","e"," ","s","t","a","g","e","d"," ","f","i","l","e"," ","c","h",
      "a","n","g","e","s","."," ","T","h","e"," ","u","s","e","r","'","s",
      " ","i","n","t","e","n","t"," ","i","s",":"," ","\"">>
PromptAfterIntent ==
    <<"\"",".","\n","\n">>
PromptTail ==
    <<"\n","\n","R","e","t","u","r","n"," ","o","n","l","y"," ","t","h","e",
      " ","s","i","n","g","l","e","-","l","i","n","e",","," ","f","o","r",
      "m","a","t","t","e","d"," ","c","o","m","m","i","t"," ","m","e","s",
      "s","a","g","e"," ","a","n","d"," ","n","o","t","h","i","n","g"," ",
      "e","l","s","e",".">>
DiffHead ==
    <<"S","t","a","g","e","d"," ","f","i","l","e"," ","c","h","a","n","g",
      "e","s",":","\n",Tick,Tick,Tick,"\n">>
DiffTail ==
    <<"\n",Tick,Tick,Tick>>
DiffNone ==
    <<"N","o"," ","s","t","a","g","e","d"," ","f","i","l","e"," ","c","h",
      "a","n","g","e","s"," ","d","e","t","e","c","t","e","d",".">>
DiffFailed ==
    <<"C","o","u","l","d"," ","n","o","t"," ","r","e","t","r","i","e","v",
      "e"," ","s","t","a","g","e","d"," ","f","i","l","e"," ","c","h","a",
      "n","g","e","s",".">>
StatLine ==
    <<" ","a"," ","|"," ","1"," ","+">>

(* ---------------------------------------------------------------------- *)
(* Input alphabets                                                         *)
(* ---------------------------------------------------------------------- *)

Fix == <<"f","i","x">>
It == <<"i","t">>
DashV == <<"-","v">>
MoreConcise == <<"m","o","r","e"," ","c","o","n","c","i","s","e">>

\* Argument lists given on the command line (process.argv.slice(2)).
ArgLists ==
    { <<>>, <<Fix>>, <<FlagDashY>>, <<FlagSlashY>>, <<FlagDashY, Fix>>,
      <<Fix, DashV, It, FlagSlashY>> }

\* Arguments for the parser examined alone: words, an option, both
\* confirmation flags and the empty argument.
ArgTokens == { Fix, It, DashV, FlagDashY, FlagSlashY, <<>> }

\* Every list of at most n such arguments.
ArgListsUpTo(n) == UNION { [1..k -> ArgTokens] : k \in 0..n }

\* Output of "git status --porcelain": clean, unstaged change, untracked
\* file, staged change, path modified on both sides of a merge, path added
\* on both sides of a merge, untracked file named UU.
StatusClean == <<>>
StatusUnstaged == <<" ","M"," ","a">>
StatusUntracked == <<"?","?"," ","a">>
StatusStaged == <<"M"," "," ","a">>
StatusUnmerged == <<"U","U"," ","a">>
StatusBothAdded == <<"A","A"," ","a">>
StatusUntrackedUU == <<"?","?"," ","U","U">>
Trees ==
    { StatusClean, StatusUnstaged, StatusStaged, StatusUnmerged,
      StatusBothAdded, StatusUntrackedUU }

\* Outside a repository nothing is tracked, staged or unmerged.
TreesOutside == { StatusClean, StatusUntracked }

\* Credentials.
KeyEnv == <<"e">>
KeyLocal == <<"l">>
KeyGlobal == <<"g">>
KeyTyped == <<"k">>

\* Answers typed at the free-text prompts.
IntentAnswers == { <<>>, Fix }
KeyAnswers == { <<>>, KeyTyped }
Hints == { <<>>, MoreConcise }

\* Text of the first candidate of a well-formed response.
RawTexts ==
    { <<"a">>, <<Tick, "b", Tick>>, <<" ", Tick, Tick, "\n">> }

\* Characters of the response texts for the cleanup examined alone: a
\* letter, a space, a line break and the grave accent.
TextChars == { "a", " ", "\n", Tick }

\* Every text of at most n such characters.
TextsUpTo(n) == UNION { [1..k -> TextChars] : k \in 0..n }

\* Outcomes of the POST to the generation endpoint.
Responses ==
    [kind : {"ok"}, text : RawTexts]
    \cup { [kind |-> "nocandidates", text |-> <<>>],
           [kind |-> "http429", text |-> <<>>],
           [kind |-> "neterror", text |-> <<>>] }

(* ---------------------------------------------------------------------- *)
(* index.js: argument parsing                                              *)
(* ---------------------------------------------------------------------- *)

\* args.includes("-y") || args.includes("/y")
ParseAutoConfirm(args) ==
    (\E i \in 1..Len(args) : args[i] = FlagDashY)
    \/ (\E i \in 1..Len(args) : args[i] = FlagSlashY)

IsPositional(arg) == ~StartsWith(arg, Dash)

\* Variant of ParseCommitMessage: an argument that starts with a slash is
\* taken for a flag as well.
ParseCommitMessage_SkipSlash(args) ==
    JoinSpace(SelectSeq(args, LAMBDA arg : IsPositional(arg)
                                           /\ ~StartsWith(arg, <<"/">>)))

\* args.filter((arg) => !arg.startsWith("-")).join(" ")
ParseCommitMessage(args) == JoinSpace(SelectSeq(args, IsPositional))

(* ---------------------------------------------------------------------- *)
(* The version-control tool, as the gateway observes it                    *)
(* ---------------------------------------------------------------------- *)

\* "git diff --staged --quiet" exits 1 exactly when the index differs from
\* HEAD: the first status column of the entry is neither blank nor "?".
StagedExists(tr) == tr # <<>> /\ tr[1] \notin {" ", "?"}

\* "git add ." moves the work-tree change of the entry into the index.
StageAll(tr) ==
    IF tr = <<>> THEN tr
    ELSE IF tr[1] = "?" THEN <<"A", " ">> \o SubSeq(tr, 3, Len(tr))
    ELSE IF tr[1] = " " THEN <<tr[2], " ">> \o SubSeq(tr, 3, Len(tr))
    ELSE tr

\* The two status columns git prints for a path with a merge conflict.
UnmergedCodes ==
    { <<"D","D">>, <<"A","U">>, <<"U","D">>, <<"U","A">>, <<"D","U">>,
      <<"A","A">>, <<"U","U">> }

\* The entry is a path with an unresolved merge conflict.
Unmerged(tr) == Len(tr) >= 2 /\ <<tr[1], tr[2]>> \in UnmergedCodes

\* "git commit" creates a commit only from a changed index without unmerged
\* paths.
Committable(tr) == StagedExists(tr) /\ ~Unmerged(tr)

\* "git config gemini.apikey" (no scope option): the repository-local value
\* when set, else the user-wide value; <<>> stands for exit status 1.
ConfigGet(localK, globalK) == IF localK # <<>> THEN localK ELSE globalK

(* ---------------------------------------------------------------------- *)
(* services/git.js                                                         *)
(*                                                                         *)
(* Every operation returns a record: ret, its result ("throw" when the     *)
(* promise rejects); calls, the subprocesses run and prompts shown, each   *)
(* with its outcome; out, the diagnostics printed; errs, the number of     *)
(* unexplained subprocess failures met.                                    *)
(* ---------------------------------------------------------------------- *)

\* Variant of ConflictCheck: the output of the status command is not
\* searched for the conflict marker.
ConflictCheck_NoMarkerTest(c, tr, statusOk) ==
    IF ~statusOk
    THEN [ret |-> "true", repo |-> TRUE, errs |-> 1, out |-> <<>>,
          calls |-> c \o << <<"git status --porcelain", "fail">> >>]
    ELSE [ret |-> "true", repo |-> TRUE, errs |-> 0, out |-> <<>>,
          calls |-> c \o << <<"git status --porcelain", "ok">> >>]

\* Third check of preflightChecks; c holds the calls made so far.
ConflictCheck(c, tr, statusOk) ==
    IF ~statusOk
    THEN [ret |-> "true", repo |-> TRUE, errs |-> 1, out |-> <<>>,
          calls |-> c \o << <<"git status --porcelain", "fail">> >>]
    ELSE IF Includes(tr, ConflictMarker)
    THEN [ret |-> "false", repo |-> TRUE, errs |-> 0,
          out |-> <<"Error: Merge conflict detected.">>,
          calls |-> c \o << <<"git status --porcelain", "ok">> >>]
    ELSE [ret |-> "true", repo |-> TRUE, errs |-> 0, out |-> <<>>,
          calls |-> c \o << <<"git status --porcelain", "ok">> >>]

\* Variant of InitRepository: a failure of the branch query or of the
\* rename is raised.
InitRepository_BranchFatal(c, tr, o) ==
    LET c4ok == c \o << <<"git init --initial-branch=main", "ok">> >>
        c4 == c \o << <<"git init --initial-branch=main", "fail">> >>
        c5 == c4 \o << <<"git init", "ok">> >>
        c6 == c5 \o << <<"git symbolic-ref --short HEAD", o.branch>> >>
        c7 == c6 \o << <<"git branch -m master main",
                         IF o.renameOk THEN "ok" ELSE "fail">> >>
    IN
    IF o.initMainOk THEN ConflictCheck(c4ok, tr, o.statusOk)
    ELSE IF ~o.initOk
    THEN [ret |-> "throw", repo |-> FALSE, errs |-> 0, out |-> <<>>,
          calls |-> c4 \o << <<"git init", "fail">> >>]
    ELSE IF o.branch = "fail"
    THEN [ret |-> "throw", repo |-> TRUE, errs |-> 0, out |-> <<>>,
          calls |-> c6]
    ELSE IF o.branch = "master" /\ ~o.renameOk
    THEN [ret |-> "throw", repo |-> TRUE, errs |-> 0, out |-> <<>>,
          calls |-> c7]
    ELSE IF o.branch = "master" THEN ConflictCheck(c7, tr, o.statusOk)
    ELSE ConflictCheck(c6, tr, o.statusOk)

\* The init sub-flow, entered on consent.
InitRepository(c, tr, o) ==
    LET c4ok == c \o << <<"git init --initial-branch=main", "ok">> >>
        c4 == c \o << <<"git init --initial-branch=main", "fail">> >>
        c5 == c4 \o << <<"git init", "ok">> >>
        c6 == c5 \o << <<"git symbolic-ref --short HEAD", o.branch>> >>
        c7 == c6 \o << <<"git branch -m master main",
                         IF o.renameOk THEN "ok" ELSE "fail">> >>
    IN
    IF o.initMainOk THEN ConflictCheck(c4ok, tr, o.statusOk)
    ELSE IF ~o.initOk
    THEN [ret |-> "throw", repo |-> FALSE, errs |-> 0, out |-> <<>>,
          calls |-> c4 \o << <<"git init", "fail">> >>]
    ELSE IF o.branch = "master" THEN ConflictCheck(c7, tr, o.statusOk)
    ELSE ConflictCheck(c6, tr, o.statusOk)

\* Variant of EnsureRepository: a refusal does not end the checks.
EnsureRepository_DeclineContinues(c, inRepo, tr, o) ==
    LET c2 == c \o << <<"git rev-parse --is-inside-work-tree", "fail">> >> IN
    IF inRepo
    THEN ConflictCheck(
             c \o << <<"git rev-parse --is-inside-work-tree", "ok">> >>,
             tr, o.statusOk)
    ELSE IF o.shouldInit
    THEN InitRepository(c2 \o << <<"promptToInitRepo", "yes">> >>, tr, o)
    ELSE ConflictCheck(c2 \o << <<"promptToInitRepo", "no">> >>, tr,
                       o.statusOk)

\* Second check of preflightChecks.
EnsureRepository(c, inRepo, tr, o) ==
    LET c2 == c \o << <<"git rev-parse --is-inside-work-tree", "fail">> >> IN
    IF inRepo
    THEN ConflictCheck(
             c \o << <<"git rev-parse --is-inside-work-tree", "ok">> >>,
             tr, o.statusOk)
    ELSE IF o.shouldInit
    THEN InitRepository(c2 \o << <<"promptToInitRepo", "yes">> >>, tr, o)
    ELSE [ret |-> "false", repo |-> FALSE, errs |-> 0,
          out |-> <<"Operation cancelled.">>,
          calls |-> c2 \o << <<"promptToInitRepo", "no">> >>]

\* Variant of preflightChecks: the first catch block does not return.
preflightChecks_NoToolReturn(gitOk, inRepo, tr, o) ==
    EnsureRepository(
        << <<"git --version", IF gitOk THEN "ok" ELSE "fail">> >>,
        inRepo, tr, o)

\* preflightChecks.  gitOk, inRepo, tr: the environment.  o: the answer of
\* the user and the outcomes of the subprocesses that the environment does
\* not fix.
preflightChecks(gitOk, inRepo, tr, o) ==
    IF ~gitOk
    THEN [ret |-> "false", repo |-> inRepo, errs |-> 0,
          out |-> <<"Error: Git is not installed or not found in your PATH.">>,
          calls |-> << <<"git --version", "fail">> >>]
    ELSE EnsureRepository(<< <<"git --version", "ok">> >>, inRepo, tr, o)

\* Variant of getApiKey: the configuration is read whatever the environment
\* holds (the behaviour of the gateway before the variable was introduced).
getApiKey_ConfigOnly(envK, localK, globalK, configOk) ==
    LET stdout == ConfigGet(localK, globalK) IN
    IF ~configOk
    THEN [ret |-> Null, errs |-> 1,
          calls |-> << <<"git config gemini.apikey", "fail">> >>]
    ELSE IF stdout = <<>>
    THEN [ret |-> Null, errs |-> 0,
          calls |-> << <<"git config gemini.apikey", "exit1">> >>]
    ELSE [ret |-> stdout, errs |-> 0,
          calls |-> << <<"git config gemini.apikey", "ok">> >>]

\* getApiKey: ret is the key or Null.
getApiKey(envK, localK, globalK, configOk) ==
    LET stdout == ConfigGet(localK, globalK) IN
    IF Truthy(envK) THEN [ret |-> envK, calls |-> <<>>, errs |-> 0]
    ELSE IF ~configOk
    THEN [ret |-> Null, errs |-> 1,
          calls |-> << <<"git config gemini.apikey", "fail">> >>]
    ELSE IF stdout = <<>>
    THEN [ret |-> Null, errs |-> 0,
          calls |-> << <<"git config gemini.apikey", "exit1">> >>]
    ELSE [ret |-> stdout, errs |-> 0,
          calls |-> << <<"git config gemini.apikey", "ok">> >>]

\* saveApiKey: localKey is the repository-local value afterwards.
saveApiKey(localK, key, configOk) ==
    IF configOk
    THEN [ret |-> "undefined", localKey |-> key, errs |-> 0,
          calls |-> << <<"git config --local gemini.apikey", "ok">> >>]
    ELSE [ret |-> "throw", localKey |-> localK, errs |-> 1,
          calls |-> << <<"git config --local gemini.apikey", "fail">> >>]

\* handleStaging.  o.probeErr: the probe fails for a reason of its own.
handleStaging(tr, o) ==
    LET c1 == << <<"git diff --staged --quiet", "exit0">> >>
        c2 == c1 \o << <<"git status --porcelain", "ok">> >>
        c3 == c2 \o << <<"promptToStageFiles", "yes">> >>
    IN
    IF o.probeErr
    THEN [ret |-> "true", tree |-> tr, errs |-> 1, out |-> <<>>,
          calls |-> << <<"git diff --staged --quiet", "fail">> >>]
    ELSE IF StagedExists(tr)
    THEN [ret |-> "true", tree |-> tr, errs |-> 0, out |-> <<>>,
          calls |-> << <<"git diff --staged --quiet", "exit1">> >>]
    ELSE IF ~o.statusOk
    THEN [ret |-> "throw", tree |-> tr, errs |-> 1, out |-> <<>>,
          calls |-> c1 \o << <<"git status --porcelain", "fail">> >>]
    ELSE IF tr = <<>>
    THEN [ret |-> "false", tree |-> tr, errs |-> 0, calls |-> c2,
          out |-> <<"No changes to commit. Working tree clean.">>]
    ELSE IF ~o.shouldAdd
    THEN [ret |-> "false", tree |-> tr, errs |-> 0,
          calls |-> c2 \o << <<"promptToStageFiles", "no">> >>,
          out |-> <<"Please stage your files manually before committing.">>]
    ELSE IF ~o.addOk
    THEN [ret |-> "throw", tree |-> tr, errs |-> 1, out |-> <<>>,
          calls |-> c3 \o << <<"git add .", "fail">> >>]
    ELSE [ret |-> "true", tree |-> StageAll(tr), errs |-> 0,
          calls |-> c3 \o << <<"git add .", "ok">> >>,
          out |-> <<"All changes have been staged.">>]

\* getStagedDiff
getStagedDiff(tr, statOk) ==
    LET stdout == IF StagedExists(tr) THEN StatLine ELSE <<>> IN
    IF ~statOk THEN DiffFailed
    ELSE IF stdout # <<>> THEN DiffHead \o stdout \o DiffTail
    ELSE DiffNone

\* Variant of performCommit: the message is wrapped in quotes of its own.
performCommit_Quoted(message, commitOk) ==
    [ret |-> "undefined",
     message |-> Quote \o message \o Quote,
     calls |-> << <<"git commit -m", IF commitOk THEN "ok" ELSE "fail">> >>,
     out |-> IF commitOk THEN <<"Commit successful!">>
             ELSE <<"Error executing git commit:">>]

\* Variant of performCommit: the failure of the subprocess is raised again.
performCommit_Rethrow(message, commitOk) ==
    [ret |-> IF commitOk THEN "undefined" ELSE "throw",
     message |-> message,
     calls |-> << <<"git commit -m", IF commitOk THEN "ok" ELSE "fail">> >>,
     out |-> IF commitOk THEN <<"Commit successful!">>
             ELSE <<"Error executing git commit:">>]

\* performCommit never throws: the failure of the subprocess is reported.
\* message is the argument handed to "git commit -m".
performCommit(message, commitOk) ==
    [ret |-> "undefined",
     message |-> message,
     calls |-> << <<"git commit -m", IF commitOk THEN "ok" ELSE "fail">> >>,
     out |-> IF commitOk THEN <<"Commit successful!">>
             ELSE <<"Error executing git commit:">>]

(* ---------------------------------------------------------------------- *)
(* Suggestion gateway                                                      *)
(* ---------------------------------------------------------------------- *)

\* The endpoint of the generation request, up to the value of the key.
ApiUrlPrefix ==
    <<"h","t","t","p","s",":","/","/","g","e","n","e","r","a","t","i","v",
      "e","l","a","n","g","u","a","g","e",".","g","o","o","g","l","e","a",
      "p","i","s",".","c","o","m","/","v","1","b","e","t","a","/","m","o",
      "d","e","l","s","/","g","e","m","i","n","i","-","2",".","0","-","f",
      "l","a","s","h",":","g","e","n","e","r","a","t","e","C","o","n","t",
      "e","n","t","?","k","e","y","=">>

\* Variant of RequestUrl: the key is taken from the environment at the time
\* of the request and not from the argument.
RequestUrl_NoArgument(key) == ApiUrlPrefix \o <<"e","n","v">>

\* const API_URL of getCommitSuggestion
RequestUrl(key) == ApiUrlPrefix \o key

\* Variant of constructPrompt: the diff summary is left out.
constructPrompt_NoDiff(intent, diffContext) ==
    PromptHead \o intent \o PromptAfterIntent \o PromptTail

\* The prompt template.
constructPrompt(intent, diffContext) ==
    PromptHead \o intent \o PromptAfterIntent \o diffContext \o PromptTail

\* Variant of getCommitSuggestion: the catch block returns the error text.
getCommitSuggestion_ErrorText(resp) ==
    IF resp.kind \in {"http429", "neterror"} THEN <<"e", "r", "r">>
    ELSE LET suggestion == IF resp.kind = "ok" THEN resp.text ELSE <<>> IN
         StripTicks(Trim(suggestion))

\* getCommitSuggestion: the cleaned text, or Null when the request throws.
getCommitSuggestion(resp) ==
    IF resp.kind \in {"http429", "neterror"} THEN Null
    ELSE LET suggestion == IF resp.kind = "ok" THEN resp.text ELSE <<>> IN
         StripTicks(Trim(suggestion))

(* ---------------------------------------------------------------------- *)
(* Orchestrator: the decisions of runCommitWorkflow                        *)
(* ---------------------------------------------------------------------- *)

\* Variant of SuggestionAbsent: only null counts as absent.
SuggestionAbsent_NullOnly(suggestion) == suggestion = Null

\* if (!currentSuggestion) return;
SuggestionAbsent(suggestion) == ~Truthy(suggestion)

\* Variant of AfterDisplay: the flag is ignored.
AfterDisplay_AlwaysAsk(auto) == "decide"

\* if (autoConfirm) break;  otherwise the decision prompt follows
AfterDisplay(auto) == IF auto THEN "commit" ELSE "decide"

\* Variant of AfterDecision: a rewrite decision leaves the loop as well.
AfterDecision_RewriteLeaves(action) ==
    IF action = "cancel" THEN "aborted" ELSE "commit"

\* Variant of AfterDecision: the cancel branch lacks its return.
AfterDecision_CancelFallsThrough(action) ==
    IF action = "rewrite" THEN "generate" ELSE "commit"

\* The three branches on the value of promptForAction.
AfterDecision(action) ==
    IF action = "commit" THEN "commit"
    ELSE IF action = "cancel" THEN "aborted"
    ELSE "generate"

\* Variant of RewriteIntent: the clause is added whatever the hint.
RewriteIntent_AlwaysToBe(hint, suggestion) ==
    RewritePrefix \o ToBe \o hint \o ColonQuote \o suggestion \o Quote

\* The Raw Intent of the next pass after a rewrite decision.
RewriteIntent(hint, suggestion) ==
    RewritePrefix \o (IF Truthy(hint) THEN ToBe \o hint ELSE <<>>)
    \o ColonQuote \o suggestion \o Quote

(* ---------------------------------------------------------------------- *)
(* State                                                                   *)
(* ---------------------------------------------------------------------- *)

VARIABLES
    pc,                \* position of the run in main / runCommitWorkflow
    argv,              \* process.argv.slice(2)
    initialMessage,    \* first parameter of runCommitWorkflow
    autoConfirm,       \* second parameter of runCommitWorkflow
    gitInstalled,      \* the git binary can be invoked
    insideRepo,        \* the working directory is inside a work tree
    tree,              \* what "git status --porcelain" prints
    envKey,            \* process.env.GEMINI_API_KEY
    localKey,          \* gemini.apikey in the repository-local configuration
    globalKey,         \* gemini.apikey in the user-wide configuration
    apiKey,            \* let apiKey
    rawCommit,         \* let rawCommit
    currentSuggestion, \* let currentSuggestion
    rewriteHint,       \* const rewriteHint of the last rewrite
    prompt,            \* const prompt of the last generation call
    generated,         \* every value getCommitSuggestion returned, in order
    requests,          \* API_URL of every generation request, in order
    calls,             \* subprocesses run and prompts shown, in order
    console,           \* diagnostics printed, in order
    commits,           \* message argument of every "git commit -m", in order
    faults,            \* unexplained subprocess failures so far
    exitCode,          \* process exit code, -1 while the process runs
    responseText,      \* candidates[0].content.parts[0].text under cleanup
    cleaned            \* results of the successive cleanups of responseText

vars ==
    <<pc, argv, initialMessage, autoConfirm, gitInstalled, insideRepo, tree,
      envKey, localKey, globalKey, apiKey, rawCommit, currentSuggestion,
      rewriteHint, prompt, generated, requests, calls, console, commits,
      faults,
      exitCode, responseText, cleaned>>

envVars == <<gitInstalled, envKey, globalKey>>
loopVars ==
    <<rawCommit, currentSuggestion, rewriteHint, prompt, generated, requests>>
cleanupVars == <<responseText, cleaned>>

\* The calls of the given name made so far.
CallsOf(name) == SelectSeq(calls, LAMBDA c : c[1] = name)

Called(name) == CallsOf(name) # <<>>

\* Number of rewrite decisions taken so far.
Rewrites == Len(CallsOf("promptForRewriteHint"))

Init ==
    /\ pc = "main"
    /\ argv \in ArgLists
    /\ initialMessage = <<>>
    /\ autoConfirm = FALSE
    /\ gitInstalled \in BOOLEAN
    /\ insideRepo \in BOOLEAN
    /\ tree \in IF insideRepo THEN Trees ELSE TreesOutside
    /\ envKey \in {Null, <<>>, KeyEnv}
    /\ localKey \in IF insideRepo THEN {<<>>, KeyLocal} ELSE {<<>>}
    /\ globalKey \in IF localKey = <<>> THEN {<<>>, KeyGlobal} ELSE {<<>>}
    /\ apiKey = Null
    /\ rawCommit = <<>>
    /\ currentSuggestion = <<>>
    /\ rewriteHint = <<>>
    /\ prompt = <<>>
    /\ generated = <<>>
    /\ requests = <<>>
    /\ calls = <<>>
    /\ console = <<>>
    /\ commits = <<>>
    /\ faults = 0
    /\ exitCode = -1
    /\ responseText = <<>>
    /\ cleaned = <<>>

\* The workflow returns: main resolves and the process exits with 0.
Return(state) == pc' = state /\ exitCode' = 0

\* Variant of Throw: the top-level handler reports the error and lets the
\* process end with the default exit code.
Throw_ExitZero ==
    /\ pc' = "fault"
    /\ exitCode' = 0

\* A rejection leaves runCommitWorkflow: main().catch calls process.exit(1).
Throw ==
    /\ pc' = "fault"
    /\ exitCode' = 1

(* ---------------------------------------------------------------------- *)
(* Actions                                                                 *)
(* ---------------------------------------------------------------------- *)

\* index.js main: parse the arguments and start the workflow.
Main ==
    /\ pc = "main"
    /\ autoConfirm' = ParseAutoConfirm(argv)
    /\ initialMessage' = ParseCommitMessage(argv)
    /\ pc' = "preflight"
    /\ UNCHANGED <<argv, insideRepo, tree, localKey, apiKey, calls, console,
                   commits, faults, exitCode>>
    /\ UNCHANGED envVars
    /\ UNCHANGED cleanupVars
    /\ UNCHANGED loopVars

PreflightOutcomes ==
    [shouldInit : BOOLEAN, initMainOk : BOOLEAN, initOk : BOOLEAN,
     branch : {"master", "main", "fail"}, renameOk : BOOLEAN,
     statusOk : BOOLEAN]

\* Step 1: git.preflightChecks()
Preflight ==
    /\ pc = "preflight"
    /\ \E o \in PreflightOutcomes :
         LET r == preflightChecks(gitInstalled, insideRepo, tree, o) IN
         /\ faults + r.errs <= MaxFaults
         /\ faults' = faults + r.errs
         /\ calls' = calls \o r.calls
         /\ console' = console \o r.out
         /\ insideRepo' = r.repo
         /\ CASE r.ret = "true" -> pc' = "credential" /\ exitCode' = exitCode
              [] r.ret = "false" -> Return("aborted")
              [] OTHER -> Throw
    /\ UNCHANGED <<argv, initialMessage, autoConfirm, tree, localKey, apiKey,
                   commits>>
    /\ UNCHANGED envVars
    /\ UNCHANGED cleanupVars
    /\ UNCHANGED loopVars

\* Step 2, first half: git.getApiKey()
ResolveCredential ==
    /\ pc = "credential"
    /\ \E configOk \in BOOLEAN :
         LET r == getApiKey(envKey, localKey, globalKey, configOk) IN
         /\ faults + r.errs <= MaxFaults
         /\ faults' = faults + r.errs
         /\ calls' = calls \o r.calls
         /\ apiKey' = r.ret
         /\ pc' = IF Truthy(r.ret) THEN "staging" ELSE "enterCredential"
    /\ UNCHANGED <<argv, initialMessage, autoConfirm, insideRepo, tree,
                   localKey, console, commits, exitCode>>
    /\ UNCHANGED envVars
    /\ UNCHANGED cleanupVars
    /\ UNCHANGED loopVars

\* Step 2, second half: ui.promptForApiKey, ui.promptToSaveApiKey,
\* git.saveApiKey
EnterCredential ==
    /\ pc = "enterCredential"
    /\ \E entered \in KeyAnswers, shouldSave \in BOOLEAN, configOk \in BOOLEAN :
         LET r == saveApiKey(localKey, entered, configOk) IN
         /\ apiKey' = entered
         /\ IF ~Truthy(entered)
            THEN /\ calls' = calls \o << <<"promptForApiKey", "empty">> >>
                 /\ UNCHANGED <<localKey, faults>>
                 /\ Return("aborted")
            ELSE IF ~shouldSave
            THEN /\ calls' = calls \o << <<"promptForApiKey", "text">>,
                                         <<"promptToSaveApiKey", "no">> >>
                 /\ UNCHANGED <<localKey, faults>>
                 /\ pc' = "staging"
                 /\ exitCode' = exitCode
            ELSE /\ calls' = calls \o << <<"promptForApiKey", "text">>,
                                         <<"promptToSaveApiKey", "yes">> >>
                             \o r.calls
                 /\ faults + r.errs <= MaxFaults
                 /\ faults' = faults + r.errs
                 /\ localKey' = r.localKey
                 /\ IF r.ret = "throw" THEN Throw
                    ELSE pc' = "staging" /\ exitCode' = exitCode
    /\ UNCHANGED <<argv, initialMessage, autoConfirm, insideRepo, tree,
                   console, commits>>
    /\ UNCHANGED envVars
    /\ UNCHANGED cleanupVars
    /\ UNCHANGED loopVars

StagingOutcomes ==
    [probeErr : BOOLEAN, statusOk : BOOLEAN, shouldAdd : BOOLEAN,
     addOk : BOOLEAN]

\* Step 3: git.handleStaging()
Staging ==
    /\ pc = "staging"
    /\ \E o \in StagingOutcomes :
         LET r == handleStaging(tree, o) IN
         /\ faults + r.errs <= MaxFaults
         /\ faults' = faults + r.errs
         /\ calls' = calls \o r.calls
         /\ console' = console \o r.out
         /\ tree' = r.tree
         /\ CASE r.ret = "true" -> pc' = "intent" /\ exitCode' = exitCode
              [] r.ret = "false" -> Return("aborted")
              [] OTHER -> Throw
    /\ UNCHANGED <<argv, initialMessage, autoConfirm, insideRepo, localKey,
                   apiKey, commits>>
    /\ UNCHANGED envVars
    /\ UNCHANGED cleanupVars
    /\ UNCHANGED loopVars

\* Step 4: the initial intent, from the command line or from the prompt.
Intent ==
    /\ pc = "intent"
    /\ \E answer \in IntentAnswers :
         LET asked == ~Truthy(initialMessage)
             raw == IF asked THEN answer ELSE initialMessage
         IN
         /\ calls' = IF asked
                     THEN calls \o << <<"promptForInitialCommit",
                                        IF answer = <<>> THEN "empty"
                                        ELSE "text">> >>
                     ELSE calls
         /\ rawCommit' = raw
         /\ IF Truthy(raw)
            THEN /\ pc' = "generate"
                 /\ UNCHANGED <<console, exitCode>>
            ELSE /\ console' = console
                                \o <<"No commit message entered. Exiting.">>
                 /\ Return("aborted")
    /\ currentSuggestion' = <<>>
    /\ UNCHANGED <<argv, initialMessage, autoConfirm, insideRepo, tree,
                   localKey, apiKey, rewriteHint, prompt, generated, requests,
                   commits,
                   faults>>
    /\ UNCHANGED envVars
    /\ UNCHANGED cleanupVars

\* Step 5: one pass of the loop up to the decision prompt.
Generate ==
    /\ pc = "generate"
    /\ \E statOk \in BOOLEAN, resp \in Responses :
         LET diffContext == getStagedDiff(tree, statOk)
             suggestion == getCommitSuggestion(resp)
         IN
         /\ faults + (IF statOk THEN 0 ELSE 1) <= MaxFaults
         /\ faults' = faults + (IF statOk THEN 0 ELSE 1)
         /\ prompt' = constructPrompt(rawCommit, diffContext)
         /\ currentSuggestion' = suggestion
         /\ generated' = Append(generated, suggestion)
         /\ requests' = Append(requests, RequestUrl(apiKey))
         /\ calls' = calls
              \o << <<"git diff --staged --stat", "ran">>,
                    <<"POST generateContent", resp.kind>> >>
         /\ IF SuggestionAbsent(suggestion)
            THEN /\ console' = console
                      \o <<"Could not get a suggestion. Please try again.">>
                 /\ Return("aborted")
            ELSE /\ console' = console \o <<"displaySuggestion">>
                 /\ pc' = AfterDisplay(autoConfirm)
                 /\ exitCode' = exitCode
    /\ UNCHANGED <<argv, initialMessage, autoConfirm, insideRepo, tree,
                   localKey, apiKey, rawCommit, rewriteHint, commits>>
    /\ UNCHANGED envVars
    /\ UNCHANGED cleanupVars

\* Variant of Decide: the rewrite instruction is put in front of the intent
\* of the pass instead of replacing it.
Decide_KeepsIntent ==
    /\ pc = "decide"
    /\ \E action \in {"commit", "cancel", "rewrite"}, hint \in Hints :
         /\ action = "rewrite" => Rewrites < MaxRewrites
         /\ pc' = AfterDecision(action)
         /\ exitCode' = IF pc' = "aborted" THEN 0 ELSE exitCode
         /\ console' = IF action = "cancel"
                       THEN console \o <<"Commit cancelled.">> ELSE console
         /\ IF action = "rewrite"
            THEN /\ calls' = calls
                      \o << <<"promptForAction", action>>,
                            <<"promptForRewriteHint", "answered">> >>
                 /\ rewriteHint' = hint
                 /\ rawCommit' = RewriteIntent(hint, currentSuggestion)
                                   \o <<"\n">> \o rawCommit
            ELSE /\ calls' = calls \o << <<"promptForAction", action>> >>
                 /\ UNCHANGED <<rawCommit, rewriteHint>>
    /\ UNCHANGED <<argv, initialMessage, autoConfirm, insideRepo, tree,
                   localKey, apiKey, currentSuggestion, prompt, generated,
                   requests,
                   commits, faults>>
    /\ UNCHANGED envVars
    /\ UNCHANGED cleanupVars

\* Step 6: ui.promptForAction and, on rewrite, ui.promptForRewriteHint.
Decide ==
    /\ pc = "decide"
    /\ \E action \in {"commit", "cancel", "rewrite"}, hint \in Hints :
         /\ action = "rewrite" => Rewrites < MaxRewrites
         /\ pc' = AfterDecision(action)
         /\ exitCode' = IF pc' = "aborted" THEN 0 ELSE exitCode
         /\ console' = IF action = "cancel"
                       THEN console \o <<"Commit cancelled.">> ELSE console
         /\ IF action = "rewrite"
            THEN /\ calls' = calls
                      \o << <<"promptForAction", action>>,
                            <<"promptForRewriteHint", "answered">> >>
                 /\ rewriteHint' = hint
                 /\ rawCommit' = RewriteIntent(hint, currentSuggestion)
            ELSE /\ calls' = calls \o << <<"promptForAction", action>> >>
                 /\ UNCHANGED <<rawCommit, rewriteHint>>
    /\ UNCHANGED <<argv, initialMessage, autoConfirm, insideRepo, tree,
                   localKey, apiKey, currentSuggestion, prompt, generated,
                   requests,
                   commits, faults>>
    /\ UNCHANGED envVars
    /\ UNCHANGED cleanupVars

\* Step 7: git.performCommit(currentSuggestion)
Commit ==
    /\ pc = "commit"
    /\ \E commitOk \in IF Committable(tree) THEN BOOLEAN ELSE {FALSE} :
         LET r == performCommit(currentSuggestion, commitOk) IN
         /\ calls' = calls \o r.calls
         /\ console' = console \o r.out
         /\ commits' = Append(commits, r.message)
         /\ tree' = IF commitOk THEN StatusClean ELSE tree
         /\ IF r.ret = "throw" THEN Throw ELSE Return("done")
    /\ UNCHANGED <<argv, initialMessage, autoConfirm, insideRepo, localKey,
                   apiKey, faults>>
    /\ UNCHANGED envVars
    /\ UNCHANGED cleanupVars
    /\ UNCHANGED loopVars

Next ==
    \/ Main
    \/ Preflight
    \/ ResolveCredential
    \/ EnterCredential
    \/ Staging
    \/ Intent
    \/ Generate
    \/ Decide
    \/ Commit

Spec == Init /\ [][Next]_vars

\* The parser of index.js examined alone: every argument list up to the
\* bound, in one environment, and the step that parses it.
InitParse ==
    /\ pc = "main"
    /\ argv \in ArgListsUpTo(MaxArgs)
    /\ initialMessage = <<>>
    /\ autoConfirm = FALSE
    /\ gitInstalled = TRUE
    /\ insideRepo = TRUE
    /\ tree = StatusStaged
    /\ envKey = KeyEnv
    /\ localKey = <<>>
    /\ globalKey = <<>>
    /\ apiKey = Null
    /\ rawCommit = <<>>
    /\ currentSuggestion = <<>>
    /\ rewriteHint = <<>>
    /\ prompt = <<>>
    /\ generated = <<>>
    /\ requests = <<>>
    /\ calls = <<>>
    /\ console = <<>>
    /\ commits = <<>>
    /\ faults = 0
    /\ exitCode = -1
    /\ responseText = <<>>
    /\ cleaned = <<>>

NextParse == Main

\* The workflow with every await returning: runs that start inside a
\* repository with the tool installed, and in which a step that can be
\* taken is taken in the end.
InitLive ==
    /\ Init
    /\ gitInstalled
    /\ insideRepo
    /\ tree \in {StatusStaged, StatusUnstaged}
    /\ envKey \in {Null, KeyEnv}
    /\ localKey = <<>>
    /\ globalKey = <<>>
    /\ argv \in {<<>>, <<Fix>>, <<FlagDashY, Fix>>}

SpecLive == InitLive /\ [][Next]_vars /\ WF_vars(Next)

\* The cleanup of getCommitSuggestion examined alone: every response text
\* up to the bound, cleaned once and then once more.
InitCleanup ==
    /\ pc = "cleanup"
    /\ responseText \in TextsUpTo(MaxTextLen)
    /\ cleaned = <<>>
    /\ argv = <<>>
    /\ initialMessage = <<>>
    /\ autoConfirm = FALSE
    /\ gitInstalled = TRUE
    /\ insideRepo = TRUE
    /\ tree = StatusStaged
    /\ envKey = KeyEnv
    /\ localKey = <<>>
    /\ globalKey = <<>>
    /\ apiKey = KeyEnv
    /\ rawCommit = <<>>
    /\ currentSuggestion = <<>>
    /\ rewriteHint = <<>>
    /\ prompt = <<>>
    /\ generated = <<>>
    /\ requests = <<>>
    /\ calls = <<>>
    /\ console = <<>>
    /\ commits = <<>>
    /\ faults = 0
    /\ exitCode = -1

\* getCommitSuggestion on a well-formed response whose text is responseText
\* the first time and the result of the previous cleanup afterwards.
Cleanup ==
    /\ pc = "cleanup"
    /\ Len(cleaned) < 2
    /\ LET text == IF cleaned = <<>> THEN responseText ELSE Last(cleaned) IN
       cleaned' = Append(cleaned,
                         getCommitSuggestion([kind |-> "ok", text |-> text]))
    /\ UNCHANGED <<pc, argv, initialMessage, autoConfirm, insideRepo, tree,
                   localKey, apiKey, calls, console, commits, faults,
                   exitCode, responseText>>
    /\ UNCHANGED envVars
    /\ UNCHANGED loopVars

NextCleanup == Cleanup

SpecCleanup == InitCleanup /\ [][NextCleanup]_vars

SpecParse == InitParse /\ [][NextParse]_vars

Terminated == pc \in {"done", "aborted", "fault"}

TypeOK ==
    /\ pc \in {"main", "preflight", "credential", "enterCredential",
               "staging", "intent", "generate", "decide", "commit",
               "done", "aborted", "fault", "cleanup"}
    /\ autoConfirm \in BOOLEAN
    /\ exitCode \in {-1, 0, 1}
    /\ Terminated <=> exitCode # -1

(* ---------------------------------------------------------------------- *)
(* Properties                                                              *)
(* ---------------------------------------------------------------------- *)

Posts == CallsOf("POST generateContent")
Decisions == CallsOf("promptForAction")

\* The run has gone past the credential step.
PastCredential ==
    \/ pc \in {"staging", "intent", "generate", "decide", "commit", "done"}
    \/ Called("git diff --staged --quiet")

\* C1: git commit -m is never run with an empty or null message, and the
\* run never stands before performCommit with an empty or null suggestion.
C1_CommitNeverEmpty ==
    /\ \A i \in 1..Len(commits) : commits[i] # Null /\ commits[i] # <<>>
    /\ pc = "commit" => currentSuggestion # Null /\ currentSuggestion # <<>>

C1_Witness == pc = "done" /\ Len(commits) = 1 /\ Rewrites >= 1

\* C2: in auto-confirm mode, once the first generation call has returned a
\* non-empty suggestion, neither the decision prompt nor the hint prompt is
\* ever shown, no second generation call is made, and the run commits that
\* first suggestion.
C2_AutoConfirmCommitsFirst ==
    (autoConfirm /\ generated # <<>> /\ Truthy(generated[1])) =>
        /\ ~Called("promptForAction")
        /\ ~Called("promptForRewriteHint")
        /\ Len(generated) = 1
        /\ pc \in {"commit", "done"}
        /\ pc = "commit" => currentSuggestion = generated[1] /\ commits = <<>>
        /\ pc = "done" => commits = <<generated[1]>>

C2_Witness ==
    autoConfirm /\ pc = "done" /\ Len(commits) = 1 /\ commits[1] # rawCommit

C4_RewriteIntentShape ==
    Rewrites >= 1 =>
        LET prior == generated[Rewrites]
            tail == ColonQuote \o prior \o Quote
            middle == SubSeq(rawCommit, Len(RewritePrefix) + 1,
                             Len(rawCommit) - Len(tail))
        IN
        /\ StartsWith(rawCommit, RewritePrefix)
        /\ EndsWith(rawCommit, tail)
        /\ Len(rawCommit) >= Len(RewritePrefix) + Len(tail)
        /\ rewriteHint = <<>> =>
               /\ middle = <<>>
               /\ ~Includes(rawCommit, <<"t", "o", " ", "b", "e">>)
        /\ rewriteHint # <<>> => middle = ToBe \o rewriteHint
        /\ rewriteHint = MoreConcise =>
               Includes(rawCommit,
                        <<"t", "o", " ", "b", "e", " ">> \o MoreConcise)

C4_Witness ==
    pc = "generate" /\ Rewrites = 2 /\ rewriteHint = <<>>
    /\ generated[1] # generated[2]

\* C5: when the last generation call failed in transport, was answered with
\* status 429, carried no candidate, or its text cleaned to nothing, the run
\* is aborted with exit code 0, nothing was committed, the call was not
\* repeated and nothing was shown after it.
C5_AbsentSuggestionAborts ==
    (Posts # <<>>
     /\ (\/ Last(Posts)[2] \in {"http429", "neterror", "nocandidates"}
         \/ ~Truthy(Last(generated)))) =>
        /\ pc = "aborted"
        /\ exitCode = 0
        /\ commits = <<>>
        /\ ~Called("git commit -m")
        /\ Last(calls)[1] = "POST generateContent"
        /\ Len(Posts) = Rewrites + 1
        /\ Last(console) = "Could not get a suggestion. Please try again."

C5_Witness ==
    pc = "aborted" /\ Posts # <<>> /\ Last(Posts)[2] = "http429"
    /\ Rewrites >= 1

\* C6: once the user has chosen cancel, the run is aborted with exit code 0,
\* nothing is committed, and the cancel decision is the last call of the run.
C6_CancelAborts ==
    (Decisions # <<>> /\ Last(Decisions)[2] = "cancel") =>
        /\ pc = "aborted"
        /\ exitCode = 0
        /\ commits = <<>>
        /\ ~Called("git commit -m")
        /\ Last(calls) = <<"promptForAction", "cancel">>
        /\ Len(Posts) = Len(Decisions)

C6_Witness ==
    Decisions # <<>> /\ Last(Decisions)[2] = "cancel" /\ Rewrites = 2

\* C7: when git cannot be invoked, preflightChecks returns false without
\* rejecting, and the version query is the only call of the whole run.
C7_NoToolAborts ==
    (~gitInstalled /\ pc \notin {"main", "preflight"}) =>
        /\ pc = "aborted"
        /\ exitCode = 0
        /\ calls = << <<"git --version", "fail">> >>

C7_Witness == ~gitInstalled /\ pc = "aborted"

\* C8: when the user declines the init prompt, the run is aborted with
\* "Operation cancelled.", no init command is run, the directory is still
\* no repository and no later step has run.
C8_DeclinedInitAborts ==
    (Called("promptToInitRepo") /\ CallsOf("promptToInitRepo")[1][2] = "no") =>
        /\ pc = "aborted"
        /\ exitCode = 0
        /\ Last(calls) = <<"promptToInitRepo", "no">>
        /\ Last(console) = "Operation cancelled."
        /\ ~insideRepo
        /\ ~Called("git init --initial-branch=main")
        /\ ~Called("git init")
        /\ apiKey = Null
        /\ generated = <<>>
        /\ commits = <<>>

C8_Witness ==
    pc = "aborted" /\ Last(calls) = <<"promptToInitRepo", "no">>
    /\ tree = StatusUntracked

\* C9: every call of handleStaging that returns, returns true without
\* prompting when staged content exists; else false without prompting when
\* the working tree is clean; else it prompts once, and returns true with
\* everything staged on consent, false with nothing staged on refusal.
C9_StagingContract ==
    [][(pc = "staging" /\ pc' # "fault") =>
          LET new == SubSeq(calls', Len(calls) + 1, Len(calls'))
              asked == SelectSeq(new, LAMBDA c : c[1] = "promptToStageFiles")
              added == SelectSeq(new, LAMBDA c : c[1] = "git add .")
          IN
          IF StagedExists(tree)
          THEN pc' = "intent" /\ asked = <<>> /\ tree' = tree
          ELSE IF tree = StatusClean
          THEN pc' = "aborted" /\ asked = <<>> /\ tree' = tree
          ELSE /\ Len(asked) = 1
               /\ asked[1][2] = "yes" =>
                      pc' = "intent" /\ added # <<>> /\ StagedExists(tree')
               /\ asked[1][2] = "no" =>
                      pc' = "aborted" /\ added = <<>> /\ tree' = tree
    ]_vars

\* C10: when GEMINI_API_KEY holds a non-empty value, the configuration is
\* never read or written, neither credential prompt is shown, and the key
\* used by the run is the value of the variable.
C10_EnvCredentialWins ==
    Truthy(envKey) =>
        /\ ~Called("git config gemini.apikey")
        /\ ~Called("git config --local gemini.apikey")
        /\ ~Called("promptForApiKey")
        /\ ~Called("promptToSaveApiKey")
        /\ apiKey \in {Null, envKey}
        /\ PastCredential => apiKey = envKey

C10_Witness ==
    Truthy(envKey) /\ localKey = KeyLocal /\ pc = "done" /\ apiKey = KeyEnv

\* C11: when GEMINI_API_KEY is unset and no credential was typed in, the key
\* the run continues with is the value held in the repository-local
\* configuration; a value held only in the user-wide configuration is never
\* the key of the run.
C11_LocalConfigOnly ==
    (~Truthy(envKey) /\ PastCredential /\ ~Called("promptForApiKey")) =>
        (Truthy(localKey) /\ apiKey = localKey)

\* The calls made by the step from the current state to the next one.
NewCalls == SubSeq(calls', Len(calls) + 1, Len(calls'))

\* C12: the credential prompt is shown only when getApiKey returned no
\* credential; an empty entry aborts the run with no persistence prompt; a
\* non-empty entry is followed by exactly one persistence prompt, the
\* credential is in the local configuration afterwards if and only if the
\* user consented, and in both cases the run proceeds to the staging check.
C12_CredentialEntry ==
    [][LET asks == SelectSeq(NewCalls, LAMBDA c : c[1] = "promptForApiKey")
           saves == SelectSeq(NewCalls,
                              LAMBDA c : c[1] = "promptToSaveApiKey")
       IN
       /\ asks # <<>> => (pc = "enterCredential" /\ ~Truthy(apiKey))
       /\ saves # <<>> => asks # <<>>
       /\ pc = "enterCredential" =>
             /\ Len(asks) = 1
             /\ asks[1][2] = "empty" =>
                   pc' = "aborted" /\ saves = <<>> /\ localKey' = localKey
             /\ asks[1][2] = "text" =>
                   /\ Len(saves) = 1
                   /\ saves[1][2] = "yes" <=> localKey' = apiKey'
                   /\ saves[1][2] = "no" => localKey' = localKey
                   /\ pc' = "staging"
    ]_vars

\* C13: no operation of the gateway (preflightChecks with its init
\* sub-flow, getApiKey, saveApiKey, handleStaging, getStagedDiff,
\* performCommit) lets the failure of a subprocess escape: the run is never
\* ended by a fault whose last call is a git command that failed.
C13_NoGatewayFault ==
    ~(pc = "fault" /\ calls # <<>> /\ Last(calls)[2] = "fail")

\* C14: git commit is run at most once in a run; whether it succeeds or
\* fails the run is done with exit code 0 right after it: nothing is
\* generated, asked or retried afterwards and no fault is raised.
C14_CommitOnceThenDone ==
    Called("git commit -m") =>
        /\ Len(CallsOf("git commit -m")) = 1
        /\ Len(commits) = 1
        /\ Last(calls)[1] = "git commit -m"
        /\ pc = "done"
        /\ exitCode = 0

C14_Witness ==
    /\ pc = "done"
    /\ Last(calls) = <<"git commit -m", "fail">>
    /\ Committable(tree)
    /\ Rewrites >= 1

\* C15: when the repository holds an unresolved merge conflict and the
\* status command of the preflight has answered, the run is aborted by the
\* preflight: no credential is resolved, nothing is staged, asked or
\* generated, and git commit is not run.
C15_ConflictStopsRun ==
    (/\ Unmerged(tree)
     /\ Called("git status --porcelain")
     /\ CallsOf("git status --porcelain")[1][2] = "ok") =>
        (pc = "aborted" /\ Last(calls) = <<"git status --porcelain", "ok">>)

\* The status commands among the calls of the step.
NewStatusCalls ==
    SelectSeq(NewCalls, LAMBDA c : c[1] = "git status --porcelain")

PositionalsBefore(args, i) ==
    { j \in 1..(i - 1) : args[j] = <<>> \/ args[j][1] # "-" }

\* The intent the command line stands for, built from the last argument
\* backwards: an argument that starts with a dash adds nothing, any other
\* one is appended, after a space when a positional argument precedes it.
RECURSIVE ExpectedIntent(_)
ExpectedIntent(args) ==
    IF args = <<>> THEN <<>>
    ELSE LET n == Len(args)
             a == args[n]
             front == SubSeq(args, 1, n - 1)
         IN
         IF a # <<>> /\ a[1] = "-" THEN ExpectedIntent(front)
         ELSE IF PositionalsBefore(args, n) = {} THEN a
         ELSE ExpectedIntent(front) \o <<" ">> \o a

C18_ExitCodes ==
    /\ exitCode = 1 <=> pc = "fault"
    /\ exitCode = 0 <=> pc \in {"done", "aborted"}
    /\ pc = "done" => Last(calls)[1] = "git commit -m"
    /\ pc = "fault" => Last(calls)[2] = "fail"

C18_Witness ==
    /\ pc = "fault"
    /\ exitCode = 1
    /\ Last(calls) = <<"git add .", "fail">>

\* The last sentence of the template, after its two line breaks.
SingleLineInstruction == SubSeq(PromptTail, 3, Len(PromptTail))

\* The summaries getStagedDiff can return for the current index.
DiffSummaries == { getStagedDiff(tree, statOk) : statOk \in BOOLEAN }

\* C19: whenever a prompt has been built from a non-empty intent, it holds
\* the intent verbatim between two double quotes, holds a diff summary of
\* the index verbatim somewhere after the closing quote, and ends with the
\* instruction to return only the single-line commit message.
C19_PromptShape ==
    (pc \in {"decide", "commit"} /\ rawCommit # <<>>) =>
        LET quoted == Quote \o rawCommit \o Quote IN
        /\ \E i \in 1..(Len(prompt) - Len(quoted) + 1) :
             /\ prompt[i] = quoted[1]
             /\ SubSeq(prompt, i, i + Len(quoted) - 1) = quoted
             /\ \E d \in DiffSummaries :
                  Includes(SubSeq(prompt, i + Len(quoted), Len(prompt)), d)
        /\ EndsWith(prompt, SingleLineInstruction)
        /\ Len(SingleLineInstruction) > 0

C19_Witness ==
    /\ pc = "decide"
    /\ Rewrites >= 1
    /\ Includes(rawCommit, Quote)
    /\ Includes(prompt, DiffFailed)

\* C20: cleaning a response text that has been cleaned already returns it
\* unchanged, whatever the raw response text was.
C20_CleanupIdempotent ==
    Len(cleaned) = 2 => cleaned[2] = cleaned[1]

\* C21: once the run holds a non-empty credential it keeps that value in
\* every later step, and every generation request made so far was sent to
\* the endpoint with that same credential as its key.
C21_CredentialImmutable ==
    [][/\ Truthy(apiKey) => apiKey' = apiKey
       /\ \A i \in 1..Len(requests') :
            Truthy(apiKey') /\ requests'[i] = ApiUrlPrefix \o apiKey'
    ]_vars

C21_Witness ==
    /\ Len(requests) = 3
    /\ apiKey = KeyTyped
    /\ Called("promptToSaveApiKey")
    /\ \A i \in 1..3 : requests[i] = ApiUrlPrefix \o KeyTyped

\* The step of runCommitWorkflow that makes the i-th call of the log:
\* 1 preflight, 2 credential, 3 staging, 4 intent, 5 loop, 6 commit.
StepOfCall(i) ==
    LET name == calls[i][1]
        probed == \E j \in 1..(i - 1) :
                     calls[j][1] = "git diff --staged --quiet"
    IN
    CASE name = "git status --porcelain" -> IF probed THEN 3 ELSE 1
      [] name \in {"git config gemini.apikey", "promptForApiKey",
                   "promptToSaveApiKey",
                   "git config --local gemini.apikey"} -> 2
      [] name \in {"git diff --staged --quiet", "promptToStageFiles",
                   "git add ."} -> 3
      [] name = "promptForInitialCommit" -> 4
      [] name \in {"git diff --staged --stat", "POST generateContent",
                   "promptForAction", "promptForRewriteHint"} -> 5
      [] name = "git commit -m" -> 6
      [] OTHER -> 1

\* The step of every call of the log, in order.
CallSteps == [i \in 1..Len(calls) |-> StepOfCall(i)]

\* C22: the calls of a run are made in the order preflight, credential,
\* staging, intent, loop, commit; a generation request or a commit is made
\* only after preflight ended with its status command inside a repository,
\* a non-empty credential was resolved, handleStaging ended on one of its
\* three paths that return true, and a non-empty intent was obtained; the
\* decision prompt follows a non-empty suggestion, and commit is run only
\* with the non-empty suggestion of the last generation request.
C22_FixedOrder ==
    LET steps == CallSteps
        last(n) == IF \A i \in DOMAIN steps : steps[i] # n
                   THEN <<"none", "none">>
                   ELSE calls[CHOOSE i \in DOMAIN steps :
                                  /\ steps[i] = n
                                  /\ \A j \in (i + 1)..Len(steps) :
                                        steps[j] # n]
    IN
    /\ \A i \in 1..(Len(steps) - 1) : steps[i] <= steps[i + 1]
    /\ (requests # <<>> \/ commits # <<>>
           \/ pc \in {"generate", "decide", "commit", "done"}) =>
          /\ calls[1] = <<"git --version", "ok">>
          /\ insideRepo
          /\ last(1)[1] = "git status --porcelain"
          /\ apiKey # Null /\ apiKey # <<>>
          /\ last(3) \in
                { <<"git diff --staged --quiet", "exit1">>,
                  <<"git diff --staged --quiet", "fail">>,
                  <<"git add .", "ok">> }
          /\ rawCommit # Null /\ rawCommit # <<>>
    /\ pc \in {"decide", "commit", "done"} =>
          /\ requests # <<>>
          /\ Last(generated) # Null /\ Last(generated) # <<>>
    /\ commits # <<>> =>
          commits[1] = Last(generated) /\ Last(calls)[1] = "git commit -m"

C22_Witness ==
    /\ pc = "done"
    /\ Rewrites = 2
    /\ Called("promptForInitialCommit")
    /\ Called("promptToSaveApiKey")
    /\ Called("git add .")
    /\ Called("git init")

\* The answer to the decision prompt shown by the step, "none" without one.
NewDecision ==
    LET d == SelectSeq(NewCalls, LAMBDA c : c[1] = "promptForAction") IN
    IF d = <<>> THEN "none" ELSE d[1][2]

\* C23: a pass of the loop makes one generation request and ends the run
\* exactly when the suggestion is absent, goes to commit exactly when the
\* suggestion is present in auto-confirm mode, and asks otherwise; a
\* decision leaves the loop exactly by commit or cancel, and a rewrite
\* decision, however many came before it, is followed by another pass;
\* with every call returning, and the user choosing commit or cancel in
\* the end, the run terminates.
C23_LoopExits ==
    /\ [][/\ pc = "generate" =>
               /\ Len(requests') = Len(requests) + 1
               /\ pc' = "aborted" <=> SuggestionAbsent(currentSuggestion')
               /\ pc' = "commit" <=>
                     (autoConfirm /\ ~SuggestionAbsent(currentSuggestion'))
               /\ pc' = "decide" <=>
                     (~autoConfirm /\ ~SuggestionAbsent(currentSuggestion'))
          /\ pc = "decide" =>
               /\ NewDecision \in {"commit", "cancel", "rewrite"}
               /\ pc' = "generate" <=> NewDecision = "rewrite"
               /\ pc' = "commit" <=> NewDecision = "commit"
               /\ pc' = "aborted" <=> NewDecision = "cancel"
               /\ requests' = requests
       ]_vars
    /\ <>Terminated

C23_Witness ==
    /\ pc = "done"
    /\ Rewrites = MaxRewrites
    /\ Len(requests) = MaxRewrites + 1
    /\ ~autoConfirm

\* The calls of the step that have the given name.
NewCallsOf(name) == SelectSeq(NewCalls, LAMBDA c : c[1] = name)

\* C24: when the user consents to the initialization, init with the branch
\* name main is run first and, if it succeeds, neither the plain init nor
\* a branch command is run; if it fails the plain init is run, then the
\* branch is queried, and the rename is run exactly when the answer is
\* master; once a repository is initialized, whether or not the query or
\* the rename failed, the status command is run last and preflight returns
\* true unless the status output holds the conflict marker.
C24_InitSubflow ==
    [][(pc = "preflight"
          /\ NewCallsOf("promptToInitRepo") = << <<"promptToInitRepo", "yes">> >>)
       =>
       LET first == NewCallsOf("git init --initial-branch=main")
           plain == NewCallsOf("git init")
           query == NewCallsOf("git symbolic-ref --short HEAD")
           rename == NewCallsOf("git branch -m master main")
       IN
       /\ Len(first) = 1
       /\ NewCalls[4] = first[1]
       /\ first[1][2] = "ok" =>
             plain = <<>> /\ query = <<>> /\ rename = <<>>
       /\ first[1][2] = "fail" =>
             /\ Len(plain) = 1 /\ NewCalls[5] = plain[1]
             /\ plain[1][2] = "ok" =>
                   /\ Len(query) = 1 /\ NewCalls[6] = query[1]
                   /\ rename # <<>> <=> query[1][2] = "master"
                   /\ rename # <<>> => NewCalls[7] = rename[1]
             /\ plain[1][2] = "fail" => query = <<>> /\ rename = <<>>
       /\ (first[1][2] = "ok" \/ plain = << <<"git init", "ok">> >>) =>
             /\ insideRepo'
             /\ Last(NewCalls)[1] = "git status --porcelain"
             /\ pc' \in {"credential", "aborted"}
             /\ pc' = "aborted" <=>
                   (/\ Last(NewCalls)[2] = "ok"
                    /\ Includes(tree', ConflictMarker))
    ]_vars

C24_Witness ==
    /\ pc = "credential"
    /\ insideRepo
    /\ \E i \in 1..Len(calls) :
         calls[i] = <<"git init --initial-branch=main", "fail">>
    /\ \E i \in 1..Len(calls) :
         calls[i] = <<"git branch -m master main", "fail">>

\* The arguments that are not one of the two confirmation flags.
WithoutConfirmFlags(args) ==
    SelectSeq(args, LAMBDA a : a \notin {FlagDashY, FlagSlashY})

\* C25: neither form of the confirmation flag is part of the initial
\* intent, which is built from the other arguments alone; a run given only
\* the flag has an empty initial intent and reaches the loop only through
\* the intent prompt.
C25_FlagNotInIntent ==
    /\ pc # "main" => initialMessage = ExpectedIntent(WithoutConfirmFlags(argv))
    /\ (/\ argv \in {<<FlagDashY>>, <<FlagSlashY>>}
        /\ pc \in {"generate", "decide", "commit", "done"}) =>
          Called("promptForInitialCommit")

\* C26: preflight reports a merge conflict and aborts the run only when an
\* entry of the status output carries an unmerged status code; a
\* conflict-free tree with a path whose name holds UU is let through.
C26_ConflictOnlyWhenUnmerged ==
    (/\ pc = "aborted"
     /\ \E i \in 1..Len(console) :
          console[i] = "Error: Merge conflict detected.") =>
        Unmerged(tree)

\* C27: the run stands past the staging check, before or in the loop or
\* before the commit, only with staged content in the index, and when no
\* stage-all was run the staging prompt was not shown either.
C27_NoGenerationWithoutStaged ==
    pc \in {"intent", "generate", "decide", "commit"} =>
        /\ StagedExists(tree)
        /\ ~Called("git add .") => ~Called("promptToStageFiles")

\* Number of places of s at which p begins.
Occurrences(s, p) ==
    Cardinality({ i \in 1..(Len(s) - Len(p) + 1) :
                    (p = <<>> \/ s[i] = p[1])
                    /\ SubSeq(s, i, i + Len(p) - 1) = p })

\* The intent the loop was entered with: the command-line message, or the
\* answer to the intent prompt when there was none.
InitialIntents == IF initialMessage # <<>> THEN {initialMessage} ELSE {Fix}

\* C28: in the loop, before any rewrite decision the Raw Intent is the
\* initial intent; after one it is a single rewrite instruction: it opens
\* with the fixed prefix, which occurs in it once, it quotes the suggestion
\* of the pass in which rewrite was chosen and no earlier suggestion that
\* differs from it, it holds a hint only when the last hint was given, and
\* it does not hold the initial intent.
C28_RewriteNeverNests ==
    pc \in {"generate", "decide", "commit"} =>
        /\ Rewrites = 0 => rawCommit \in InitialIntents
        /\ Rewrites >= 1 =>
              /\ StartsWith(rawCommit, RewritePrefix)
              /\ Occurrences(rawCommit, RewritePrefix) = 1
              /\ Occurrences(rawCommit, Quote) = 2
              /\ EndsWith(rawCommit,
                          Quote \o generated[Rewrites] \o Quote)
              /\ \A i \in 1..(Rewrites - 1) :
                    generated[i] # generated[Rewrites] =>
                        ~Includes(rawCommit, Quote \o generated[i] \o Quote)
              /\ rewriteHint = <<>> => ~Includes(rawCommit, MoreConcise)
              /\ \A intent \in InitialIntents : ~Includes(rawCommit, intent)

C28_Witness ==
    /\ pc = "decide"
    /\ Rewrites = 2
    /\ initialMessage = Fix
    /\ generated[1] # generated[2]
    /\ rewriteHint = <<>>

====
